---- MODULE Spec2Model ----
(***************************************************************************)
(* A model of ring.h (zhoukk/ring): a bounded FIFO ring of pointer-sized   *)
(* handles with single/multi producer and consumer paths.  Every load and  *)
(* store of a shared counter, every CAS and every slot copy is one step.   *)
(***************************************************************************)
EXTENDS Integers, Sequences, FiniteSets, TLC

VARIABLES
    r,          \* struct ring: the prod block, the cons block and the slot array
    width,      \* number of bits of the head/tail counters (uint32_t in the source)
    pushf,      \* producer thread -> frame of its ring_push call
    popf,       \* consumer thread -> frame of its ring_pop call
    nextHandle, \* producer -> the first handle it has not pushed yet
    reserved,   \* history: handles in the order prod.head was advanced over them
    pushed,     \* history: handles in the order prod.tail published them
    popped,     \* history: handles in the order pops returned them
    alone,      \* history: thread -> no other call was in flight during its call
    lo,         \* history: thread -> least free space (push) or occupancy (pop)
                \*          the accessors showed in a state during its call
    refused,    \* history: threads whose latest call of n >= 1 returned 0
    moved,      \* history: threads whose side's head another caller moved since they loaded it
    refq,       \* history: the reference bounded FIFO (sequential runs)
    calls,      \* thread -> number of calls it may still make
    obs,        \* frame of the thread calling an accessor
    ms          \* frame of a ring_memsize call

vars ==
    <<r, width, pushf, popf, nextHandle, reserved, pushed, popped, alone, lo,
      refused, moved, refq, calls, obs, ms>>

----------------------------------------------------------------------------
(* Bounds of the model. *)

\* the sequential specification runs rings of 2^0 .. 2^MaxOrder slots
MaxOrder == 2
\* the concurrent specifications run a ring of 2^Order slots
Order == 1
\* a call requests 0 .. MaxN handles (0 .. MaxSeqN in the sequential specification)
MaxN == 2
MaxSeqN == 3
\* a thread of a multi side makes at most MaxCalls calls, the thread of a single
\* side at most MaxSingleCalls
MaxCalls == 1
MaxSingleCalls == 2
\* in the sequential specification the producer and the consumer make MaxSeqCalls calls each
MaxSeqCalls == 5
\* counters are CounterBits wide in the concurrent specifications
CounterBits == 4
\* the accessors are observed on a ring of 2^ObsOrder slots
ObsOrder == 2
\* ring_memsize is called with every count in 0 .. MaxCount, with the powers of
\* two up to 2^MaxPower and with the counts next to the size mask
MaxCount == 128
MaxPower == 29
\* the specifications of requests of one entry or more run a ring of 2^MultiOrder slots
MultiOrder == 2
\* the wrapping specifications run counters of WrapBits bits
WrapBits == 3
\* the concurrent wrapping specification runs counters of AbaBits bits, one
\* producer making AbaCalls calls
AbaBits == 2
AbaCalls == 4

(* Program constants. *)
RING_F_SP == 1
RING_F_SC == 2
RING_B_FIXED == 0
RING_B_VARIABLE == 1
RING_SIZE_MASK == 268435455
CACHE_LINE_SIZE == 64
\* sizeof(void *) and sizeof(struct ring): two cache-aligned blocks, then the slots
SizeofPtr == 8
SizeofRing == 2 * CACHE_LINE_SIZE

Producers == {"p1", "p2"}
Consumers == {"c1", "c2"}
Threads == Producers \cup Consumers
SingleProducer == "p1"
SingleConsumer == "c1"
Behaviors == {RING_B_FIXED, RING_B_VARIABLE}

\* Handles are tagged with the producer that pushes them; a producer passes its
\* handles in order and offers again the ones a call did not take.
FirstHandle(t) == IF t = "p1" THEN 101 ELSE 201

\* A slot the program never wrote: the slot array is not initialised by ring_init.
Uninit == 0 - 1
\* What reading such a slot can yield: NULL or any pointer value, a handle included.
Indeterminate == {0, FirstHandle("p1")}

----------------------------------------------------------------------------
(* Unsigned arithmetic. *)

RECURSIVE BitAnd(_, _)
BitAnd(x, y) ==
    IF x = 0 \/ y = 0 THEN 0
    ELSE (x % 2) * (y % 2) + 2 * BitAnd(x \div 2, y \div 2)

\* a value of a counter-wide unsigned type
U32(x) == x % (2 ^ width)

Min(a, b) == IF a < b THEN a ELSE b

Front(s, k) == SubSeq(s, 1, k)

IsPrefix(s, t) == Len(s) <= Len(t) /\ s = SubSeq(t, 1, Len(s))

Range(s) == {s[k] : k \in 1 .. Len(s)}

----------------------------------------------------------------------------
(* ring_init *)

FlagSet(flags, f) == IF BitAnd(flags, f) # 0 THEN 1 ELSE 0

ring_init(count, flags) ==
    [prod |-> [sp |-> FlagSet(flags, RING_F_SP), size |-> count,
               mask |-> count - 1, head |-> 0, tail |-> 0],
     cons |-> [sc |-> FlagSet(flags, RING_F_SC), size |-> count,
               mask |-> count - 1, head |-> 0, tail |-> 0],
     ring |-> [k \in 0 .. count - 1 |-> Uninit]]

----------------------------------------------------------------------------
(* The reservation arithmetic shared by the four push/pop bodies. *)

\* a producer that counts the sacrificed slot as free
ProdAvail_OneMore(mask, cons_tail, prod_head) == U32(mask + 1 + cons_tail - prod_head)

\* free entries a producer sees
ProdAvail(mask, cons_tail, prod_head) == U32(mask + cons_tail - prod_head)

\* a consumer whose subtraction does not wrap
ConsAvail_NoWrap(prod_tail, cons_head) == prod_tail - cons_head

\* entries a consumer sees
ConsAvail(prod_tail, cons_head) == U32(prod_tail - cons_head)

\* a refusal shifted by one: a request equal to what is available is refused too
ReturnsZero_Eager(n, avail, behavior) ==
    n >= avail /\ (behavior = RING_B_FIXED \/ avail = 0)

\* the early "return 0" of the n > avail branch
ReturnsZero(n, avail, behavior) ==
    n > avail /\ (behavior = RING_B_FIXED \/ avail = 0)

\* n after the n > avail branch when the call goes on
Clamp(n, avail) == IF n > avail THEN avail ELSE n

\* slot index of the i-th copied handle (i from 0) in PUSH_PTRS / POP_PTRS
PtrIdx(idx, i, n, size) ==
    IF idx + n < size THEN idx + i
    ELSE IF idx + i < size THEN idx + i
    ELSE i - (size - idx)

----------------------------------------------------------------------------
(* Accessors, as functions of the two loaded tails. *)

ring_full(prod_tail, cons_tail, mask) ==
    IF BitAnd(U32(cons_tail - prod_tail - 1), mask) = 0 THEN 1 ELSE 0

ring_empty(prod_tail, cons_tail) ==
    IF cons_tail = prod_tail THEN 1 ELSE 0

ring_count(prod_tail, cons_tail, mask) ==
    BitAnd(U32(prod_tail - cons_tail), mask)

ring_avail(prod_tail, cons_tail, mask) ==
    BitAnd(U32(cons_tail - prod_tail - 1), mask)

\* the accessors evaluated on one state of the ring
Full(q) == ring_full(q.prod.tail, q.cons.tail, q.prod.mask)
Empty(q) == ring_empty(q.prod.tail, q.cons.tail)
Count(q) == ring_count(q.prod.tail, q.cons.tail, q.prod.mask)
Avail(q) == ring_avail(q.prod.tail, q.cons.tail, q.prod.mask)

----------------------------------------------------------------------------
(* Call frames. *)

IdlePush ==
    [pc |-> "idle", objs |-> <<>>, n |-> 0, max |-> 0, behavior |-> 0,
     prod_head |-> 0, prod_next |-> 0, i |-> 0]

IdlePop ==
    [pc |-> "idle", objs |-> <<>>, n |-> 0, max |-> 0, behavior |-> 0,
     cons_head |-> 0, cons_next |-> 0, i |-> 0]

IdleObs == [pc |-> "idle", fn |-> "none", prod_tail |-> 0, seen |-> {}]

IdleMs == [pc |-> "idle", count |-> 0, ret |-> 0]

----------------------------------------------------------------------------
(* ring_push: the dispatcher, then the single- or the multi-producer body. *)

PushBusy(t) == pushf[t].pc # "idle"
PopBusy(t) == popf[t].pc # "idle"

\* the handles objs[0 .. n-1] a frame moves
Moved(f) == Front(f.objs, f.n)

ring_push(t, n, behavior) ==
    /\ pushf[t].pc = "idle"
    \* the caller honours RING_F_SP: a single-producer ring has one producer thread
    /\ r.prod.sp # 0 => t = SingleProducer
    /\ calls[t] > 0
    /\ calls' = [calls EXCEPT ![t] = calls[t] - 1]
    /\ pushf' = [pushf EXCEPT ![t] =
                    [IdlePush EXCEPT !.pc = IF r.prod.sp # 0 THEN "sp_head" ELSE "mp_head",
                                     !.objs = [k \in 1 .. n |-> nextHandle[t] + k - 1],
                                     !.n = n, !.max = n, !.behavior = behavior]]
    /\ UNCHANGED <<r, popf, nextHandle, reserved, pushed, popped>>

\* line 315: prod_head = r->prod.head
ring_sp_push_head(t) ==
    /\ pushf[t].pc = "sp_head"
    /\ pushf' = [pushf EXCEPT ![t].prod_head = r.prod.head, ![t].pc = "sp_tail"]
    /\ UNCHANGED <<r, popf, nextHandle, reserved, pushed, popped, calls>>

\* lines 316-329: cons_tail = r->cons.tail, avail, the n > avail branch, prod_next
ring_sp_push_tail(t) ==
    /\ pushf[t].pc = "sp_tail"
    /\ LET f == pushf[t]
           avail == ProdAvail(r.prod.mask, r.cons.tail, f.prod_head)
           n == Clamp(f.n, avail)
       IN  IF ReturnsZero(f.n, avail, f.behavior)
           THEN pushf' = [pushf EXCEPT ![t] = IdlePush]
           ELSE pushf' = [pushf EXCEPT ![t].n = n,
                                       ![t].prod_next = U32(f.prod_head + n),
                                       ![t].pc = "sp_store_head"]
    /\ UNCHANGED <<r, popf, nextHandle, reserved, pushed, popped, calls>>

\* line 330: r->prod.head = prod_next
ring_sp_push_store_head(t) ==
    /\ pushf[t].pc = "sp_store_head"
    /\ r' = [r EXCEPT !.prod.head = pushf[t].prod_next]
    /\ reserved' = reserved \o Moved(pushf[t])
    /\ pushf' = [pushf EXCEPT ![t].pc = IF pushf[t].n = 0 THEN "sp_store_tail" ELSE "sp_copy"]
    /\ UNCHANGED <<popf, nextHandle, pushed, popped, calls>>

\* lines 349-350: n = max; prod_head = r->prod.head
ring_mp_push_head(t) ==
    /\ pushf[t].pc = "mp_head"
    /\ pushf' = [pushf EXCEPT ![t].n = pushf[t].max, ![t].prod_head = r.prod.head,
                              ![t].pc = "mp_tail"]
    /\ UNCHANGED <<r, popf, nextHandle, reserved, pushed, popped, calls>>

\* lines 351-364: cons_tail = r->cons.tail, avail, the n > avail branch, prod_next
ring_mp_push_tail(t) ==
    /\ pushf[t].pc = "mp_tail"
    /\ LET f == pushf[t]
           avail == ProdAvail(r.prod.mask, r.cons.tail, f.prod_head)
           n == Clamp(f.n, avail)
       IN  IF ReturnsZero(f.n, avail, f.behavior)
           THEN pushf' = [pushf EXCEPT ![t] = IdlePush]
           ELSE pushf' = [pushf EXCEPT ![t].n = n,
                                       ![t].prod_next = U32(f.prod_head + n),
                                       ![t].pc = "mp_cas"]
    /\ UNCHANGED <<r, popf, nextHandle, reserved, pushed, popped, calls>>

\* a CAS that may fail although the head holds the expected value
ring_mp_push_cas_Weak(t) ==
    /\ pushf[t].pc = "mp_cas"
    /\ \/ /\ r.prod.head = pushf[t].prod_head
          /\ r' = [r EXCEPT !.prod.head = pushf[t].prod_next]
          /\ reserved' = reserved \o Moved(pushf[t])
          /\ pushf' = [pushf EXCEPT ![t].pc = IF pushf[t].n = 0 THEN "mp_spin" ELSE "mp_copy"]
       \/ /\ pushf' = [pushf EXCEPT ![t].pc = "mp_head", ![t].n = pushf[t].max,
                                    ![t].prod_head = 0, ![t].prod_next = 0]
          /\ UNCHANGED <<r, reserved>>
    /\ UNCHANGED <<popf, nextHandle, pushed, popped, calls>>

\* lines 365-366: ok = CAS(&r->prod.head, prod_head, prod_next); while (!ok)
ring_mp_push_cas(t) ==
    /\ pushf[t].pc = "mp_cas"
    /\ \/ /\ r.prod.head = pushf[t].prod_head
          /\ r' = [r EXCEPT !.prod.head = pushf[t].prod_next]
          /\ reserved' = reserved \o Moved(pushf[t])
          /\ pushf' = [pushf EXCEPT ![t].pc = IF pushf[t].n = 0 THEN "mp_spin" ELSE "mp_copy"]
       \/ /\ r.prod.head # pushf[t].prod_head
          /\ pushf' = [pushf EXCEPT ![t].pc = "mp_head", ![t].n = pushf[t].max,
                                    ![t].prod_head = 0, ![t].prod_next = 0]
          /\ UNCHANGED <<r, reserved>>
    /\ UNCHANGED <<popf, nextHandle, pushed, popped, calls>>

\* one store r->ring[idx] = objs[i] of PUSH_PTRS; a store past the array is not modelled
PUSH_PTRS(t) ==
    /\ pushf[t].pc \in {"sp_copy", "mp_copy"}
    /\ LET f == pushf[t]
           idx == PtrIdx(BitAnd(f.prod_head, r.prod.mask), f.i, f.n, r.prod.size)
           done == f.i + 1 = f.n
       IN  /\ r' = IF idx \in DOMAIN r.ring
                   THEN [r EXCEPT !.ring[idx] = f.objs[f.i + 1]]
                   ELSE r
           /\ pushf' = [pushf EXCEPT ![t].i = IF done THEN 0 ELSE f.i + 1,
                                     ![t].pc = IF ~done THEN f.pc
                                               ELSE IF f.pc = "sp_copy" THEN "sp_store_tail"
                                               ELSE "mp_spin"]
    /\ UNCHANGED <<popf, nextHandle, reserved, pushed, popped, calls>>

\* lines 372-378: while (r->prod.tail != prod_head) pause
ring_mp_push_spin(t) ==
    /\ pushf[t].pc = "mp_spin"
    /\ \/ /\ r.prod.tail = pushf[t].prod_head
          /\ pushf' = [pushf EXCEPT ![t].pc = "mp_store_tail"]
       \/ /\ r.prod.tail # pushf[t].prod_head
          /\ UNCHANGED pushf
    /\ UNCHANGED <<r, popf, nextHandle, reserved, pushed, popped, calls>>

\* lines 335-336 and 380-381: r->prod.tail = prod_next; return n
ring_push_store_tail(t) ==
    /\ pushf[t].pc \in {"sp_store_tail", "mp_store_tail"}
    /\ r' = [r EXCEPT !.prod.tail = pushf[t].prod_next]
    /\ pushed' = pushed \o Moved(pushf[t])
    /\ nextHandle' = [nextHandle EXCEPT ![t] = nextHandle[t] + pushf[t].n]
    /\ pushf' = [pushf EXCEPT ![t] = IdlePush]
    /\ UNCHANGED <<popf, reserved, popped, calls>>

----------------------------------------------------------------------------
(* ring_pop: the dispatcher, then the single- or the multi-consumer body. *)

ring_pop(t, n, behavior) ==
    /\ popf[t].pc = "idle"
    \* the caller honours RING_F_SC: a single-consumer ring has one consumer thread
    /\ r.cons.sc # 0 => t = SingleConsumer
    /\ calls[t] > 0
    /\ calls' = [calls EXCEPT ![t] = calls[t] - 1]
    /\ popf' = [popf EXCEPT ![t] =
                   [IdlePop EXCEPT !.pc = IF r.cons.sc # 0 THEN "sc_head" ELSE "mc_head",
                                   !.n = n, !.max = n, !.behavior = behavior]]
    /\ UNCHANGED <<r, pushf, nextHandle, reserved, pushed, popped>>

\* line 424: cons_head = r->cons.head
ring_sc_pop_head(t) ==
    /\ popf[t].pc = "sc_head"
    /\ popf' = [popf EXCEPT ![t].cons_head = r.cons.head, ![t].pc = "sc_tail"]
    /\ UNCHANGED <<r, pushf, nextHandle, reserved, pushed, popped, calls>>

\* lines 425-438: prod_tail = r->prod.tail, avail, the n > avail branch, cons_next
ring_sc_pop_tail(t) ==
    /\ popf[t].pc = "sc_tail"
    /\ LET f == popf[t]
           avail == ConsAvail(r.prod.tail, f.cons_head)
           n == Clamp(f.n, avail)
       IN  IF ReturnsZero(f.n, avail, f.behavior)
           THEN popf' = [popf EXCEPT ![t] = IdlePop]
           ELSE popf' = [popf EXCEPT ![t].n = n,
                                     ![t].cons_next = U32(f.cons_head + n),
                                     ![t].pc = "sc_store_head"]
    /\ UNCHANGED <<r, pushf, nextHandle, reserved, pushed, popped, calls>>

\* line 439: r->cons.head = cons_next
ring_sc_pop_store_head(t) ==
    /\ popf[t].pc = "sc_store_head"
    /\ r' = [r EXCEPT !.cons.head = popf[t].cons_next]
    /\ popf' = [popf EXCEPT ![t].pc = IF popf[t].n = 0 THEN "sc_store_tail" ELSE "sc_copy"]
    /\ UNCHANGED <<pushf, nextHandle, reserved, pushed, popped, calls>>

\* lines 458-460: n = max; cons_head = r->cons.head
ring_mc_pop_head(t) ==
    /\ popf[t].pc = "mc_head"
    /\ popf' = [popf EXCEPT ![t].n = popf[t].max, ![t].cons_head = r.cons.head,
                            ![t].pc = "mc_tail"]
    /\ UNCHANGED <<r, pushf, nextHandle, reserved, pushed, popped, calls>>

\* lines 461-474: prod_tail = r->prod.tail, avail, the n > avail branch, cons_next
ring_mc_pop_tail(t) ==
    /\ popf[t].pc = "mc_tail"
    /\ LET f == popf[t]
           avail == ConsAvail(r.prod.tail, f.cons_head)
           n == Clamp(f.n, avail)
       IN  IF ReturnsZero(f.n, avail, f.behavior)
           THEN popf' = [popf EXCEPT ![t] = IdlePop]
           ELSE popf' = [popf EXCEPT ![t].n = n,
                                     ![t].cons_next = U32(f.cons_head + n),
                                     ![t].pc = "mc_cas"]
    /\ UNCHANGED <<r, pushf, nextHandle, reserved, pushed, popped, calls>>

\* lines 475-476: ok = CAS(&r->cons.head, cons_head, cons_next); while (!ok)
ring_mc_pop_cas(t) ==
    /\ popf[t].pc = "mc_cas"
    /\ \/ /\ r.cons.head = popf[t].cons_head
          /\ r' = [r EXCEPT !.cons.head = popf[t].cons_next]
          /\ popf' = [popf EXCEPT ![t].pc = IF popf[t].n = 0 THEN "mc_spin" ELSE "mc_copy"]
       \/ /\ r.cons.head # popf[t].cons_head
          /\ popf' = [popf EXCEPT ![t].pc = "mc_head", ![t].n = popf[t].max,
                                  ![t].cons_head = 0, ![t].cons_next = 0]
          /\ UNCHANGED r
    /\ UNCHANGED <<pushf, nextHandle, reserved, pushed, popped, calls>>

\* what objs[i] = r->ring[idx] can load: a never written slot, or one past the
\* array, holds an indeterminate value
SlotValues(idx) ==
    IF idx \in DOMAIN r.ring /\ r.ring[idx] # Uninit THEN {r.ring[idx]} ELSE Indeterminate

\* one load objs[i] = r->ring[idx] of POP_PTRS
POP_PTRS(t) ==
    /\ popf[t].pc \in {"sc_copy", "mc_copy"}
    /\ LET f == popf[t]
           idx == PtrIdx(BitAnd(f.cons_head, r.prod.mask), f.i, f.n, r.cons.size)
           done == f.i + 1 = f.n
       IN  \E v \in SlotValues(idx) :
               popf' = [popf EXCEPT ![t].objs = Append(f.objs, v),
                                    ![t].i = IF done THEN 0 ELSE f.i + 1,
                                    ![t].pc = IF ~done THEN f.pc
                                              ELSE IF f.pc = "sc_copy" THEN "sc_store_tail"
                                              ELSE "mc_spin"]
    /\ UNCHANGED <<r, pushf, nextHandle, reserved, pushed, popped, calls>>

\* lines 482-488: while (r->cons.tail != cons_head) pause
ring_mc_pop_spin(t) ==
    /\ popf[t].pc = "mc_spin"
    /\ \/ /\ r.cons.tail = popf[t].cons_head
          /\ popf' = [popf EXCEPT ![t].pc = "mc_store_tail"]
       \/ /\ r.cons.tail # popf[t].cons_head
          /\ UNCHANGED popf
    /\ UNCHANGED <<r, pushf, nextHandle, reserved, pushed, popped, calls>>

\* lines 444-445 and 490-491: r->cons.tail = cons_next; return n
ring_pop_store_tail(t) ==
    /\ popf[t].pc \in {"sc_store_tail", "mc_store_tail"}
    /\ r' = [r EXCEPT !.cons.tail = popf[t].cons_next]
    /\ popped' = popped \o popf[t].objs
    /\ popf' = [popf EXCEPT ![t] = IdlePop]
    /\ UNCHANGED <<pushf, nextHandle, reserved, pushed, calls>>

----------------------------------------------------------------------------
(* Histories of the calls in flight. *)

Busy(t) == IF t \in Producers THEN PushBusy(t) ELSE PopBusy(t)

BusyNext(t) == IF t \in Producers THEN pushf'[t].pc # "idle" ELSE popf'[t].pc # "idle"

Quiescent == \A t \in Threads : ~Busy(t)

Shown(t, q) == IF t \in Producers THEN Avail(q) ELSE Count(q)

\* thread t returns in this step
Returns(t) == Busy(t) /\ ~BusyNext(t)

\* the value the returning call hands back: n after the tail store, else 0
PushRet(f) == IF f.pc \in {"sp_store_tail", "mp_store_tail"} THEN f.n ELSE 0
PopRet(f) == IF f.pc \in {"sc_store_tail", "mc_store_tail"} THEN f.n ELSE 0

\* the frame of thread t
Frame(t) == IF t \in Producers THEN pushf[t] ELSE popf[t]

Ret(t) == IF t \in Producers THEN PushRet(pushf[t]) ELSE PopRet(popf[t])

\* the threads whose latest call asked for one handle or more and returned 0
TrackRefused ==
    refused' = (refused \ {t \in Threads : Returns(t)})
                   \cup {t \in Threads : Returns(t) /\ Frame(t).max >= 1 /\ Ret(t) = 0}

TrackAlone ==
    alone' = [t \in Threads |->
                BusyNext(t) => /\ (Busy(t) => alone[t])
                               /\ \A u \in Threads \ {t} : ~BusyNext(u)]

\* the CAS of thread t succeeds in this step
PushReserves(t) == pushf[t].pc = "mp_cas" /\ pushf'[t].pc \in {"mp_copy", "mp_spin"}
PopReserves(t) == popf[t].pc = "mc_cas" /\ popf'[t].pc \in {"mc_copy", "mc_spin"}

\* thread t loads its side's head in this step, or returns
PushLoads(t) == (pushf[t].pc = "mp_head" /\ pushf'[t].pc = "mp_tail") \/ pushf'[t].pc = "idle"
PopLoads(t) == (popf[t].pc = "mc_head" /\ popf'[t].pc = "mc_tail") \/ popf'[t].pc = "idle"

\* the threads between their load of head and their CAS when the CAS of
\* another caller of their side moves that head
TrackMoved ==
    moved' = (moved \ ({t \in Producers : PushLoads(t)} \cup {t \in Consumers : PopLoads(t)}))
                 \cup {t \in Producers :
                          /\ pushf[t].pc \in {"mp_tail", "mp_cas"}
                          /\ r'.prod.head # r.prod.head
                          /\ \E u \in Producers \ {t} : PushReserves(u)}
                 \cup {t \in Consumers :
                          /\ popf[t].pc \in {"mc_tail", "mc_cas"}
                          /\ r'.cons.head # r.cons.head
                          /\ \E u \in Consumers \ {t} : PopReserves(u)}

TrackLo ==
    lo' = [t \in Threads |->
             IF ~BusyNext(t) THEN 0
             ELSE IF Busy(t) THEN Min(lo[t], Shown(t, r'))
             ELSE Shown(t, r')]

----------------------------------------------------------------------------
(* The concurrent specification: a ring with a single side.  The thread of  *)
(* a single side makes MaxSingleCalls calls, the others MaxCalls each.      *)

RingCounts == {2 ^ k : k \in 0 .. MaxOrder}

\* the calls each thread may make: a single side has one thread, which makes
\* `single' calls; the threads of a multi side make `multi' calls each
Budget(flags, single, multi) ==
    [t \in Threads |->
        IF t \in Producers
        THEN IF BitAnd(flags, RING_F_SP) = 0 THEN multi
             ELSE IF t = SingleProducer THEN single ELSE 0
        ELSE IF BitAnd(flags, RING_F_SC) = 0 THEN multi
             ELSE IF t = SingleConsumer THEN single ELSE 0]

\* the state after ring_init(r, count, flags), the counters being w bits wide
\* and thread t being about to make budget[t] calls
InitState(count, flags, w, budget) ==
    /\ width = w
    /\ r = ring_init(count, flags)
    /\ calls = budget
    /\ pushf = [t \in Producers |-> IdlePush]
    /\ popf = [t \in Consumers |-> IdlePop]
    /\ nextHandle = [t \in Producers |-> FirstHandle(t)]
    /\ reserved = <<>>
    /\ pushed = <<>>
    /\ popped = <<>>
    /\ alone = [t \in Threads |-> TRUE]
    /\ lo = [t \in Threads |-> 0]
    /\ refused = {}
    /\ moved = {}
    /\ refq = <<>>
    /\ obs = IdleObs
    /\ ms = IdleMs

InitWith(counts, flagss, w, single, multi) ==
    \E count \in counts, flags \in flagss :
        InitState(count, flags, w, Budget(flags, single, multi))

\* the flags under which a side of the ring is single
SingleFlags == {RING_F_SP, RING_F_SC, RING_F_SP + RING_F_SC}

Init == InitWith({2 ^ Order}, SingleFlags, CounterBits, MaxSingleCalls, MaxCalls)

\* a step of the program together with the bookkeeping of the histories
Step(A) == A /\ TrackAlone /\ TrackLo /\ TrackRefused /\ UNCHANGED <<width, moved, refq, obs, ms>>

Next ==
    \/ \E t \in Producers, n \in 0 .. MaxN, behavior \in Behaviors :
           Step(ring_push(t, n, behavior))
    \/ \E t \in Producers : Step(ring_sp_push_head(t))
    \/ \E t \in Producers : Step(ring_sp_push_tail(t))
    \/ \E t \in Producers : Step(ring_sp_push_store_head(t))
    \/ \E t \in Producers : Step(ring_mp_push_head(t))
    \/ \E t \in Producers : Step(ring_mp_push_tail(t))
    \/ \E t \in Producers : Step(ring_mp_push_cas(t))
    \/ \E t \in Producers : Step(PUSH_PTRS(t))
    \/ \E t \in Producers : Step(ring_mp_push_spin(t))
    \/ \E t \in Producers : Step(ring_push_store_tail(t))
    \/ \E t \in Consumers, n \in 0 .. MaxN, behavior \in Behaviors :
           Step(ring_pop(t, n, behavior))
    \/ \E t \in Consumers : Step(ring_sc_pop_head(t))
    \/ \E t \in Consumers : Step(ring_sc_pop_tail(t))
    \/ \E t \in Consumers : Step(ring_sc_pop_store_head(t))
    \/ \E t \in Consumers : Step(ring_mc_pop_head(t))
    \/ \E t \in Consumers : Step(ring_mc_pop_tail(t))
    \/ \E t \in Consumers : Step(ring_mc_pop_cas(t))
    \/ \E t \in Consumers : Step(POP_PTRS(t))
    \/ \E t \in Consumers : Step(ring_mc_pop_spin(t))
    \/ \E t \in Consumers : Step(ring_pop_store_tail(t))

Spec == Init /\ [][Next]_vars

----------------------------------------------------------------------------
(* The multi-producer/multi-consumer specification: no flag set, two        *)
(* producers and two consumers making MaxCalls calls each.                  *)

StepMPMC(A) == A /\ TrackMoved /\ UNCHANGED <<width, alone, lo, refused, refq, obs, ms>>

InitMPMC == InitWith({2 ^ Order}, {0}, CounterBits, MaxSingleCalls, MaxCalls)

NextMPMC ==
    \/ \E t \in Producers, n \in 0 .. MaxN, behavior \in Behaviors :
           StepMPMC(ring_push(t, n, behavior))
    \/ \E t \in Producers : StepMPMC(ring_mp_push_head(t))
    \/ \E t \in Producers : StepMPMC(ring_mp_push_tail(t))
    \/ \E t \in Producers : StepMPMC(ring_mp_push_cas(t))
    \/ \E t \in Producers : StepMPMC(PUSH_PTRS(t))
    \/ \E t \in Producers : StepMPMC(ring_mp_push_spin(t))
    \/ \E t \in Producers : StepMPMC(ring_push_store_tail(t))
    \/ \E t \in Consumers, n \in 0 .. MaxN, behavior \in Behaviors :
           StepMPMC(ring_pop(t, n, behavior))
    \/ \E t \in Consumers : StepMPMC(ring_mc_pop_head(t))
    \/ \E t \in Consumers : StepMPMC(ring_mc_pop_tail(t))
    \/ \E t \in Consumers : StepMPMC(ring_mc_pop_cas(t))
    \/ \E t \in Consumers : StepMPMC(POP_PTRS(t))
    \/ \E t \in Consumers : StepMPMC(ring_mc_pop_spin(t))
    \/ \E t \in Consumers : StepMPMC(ring_pop_store_tail(t))

SpecMPMC == InitMPMC /\ [][NextMPMC]_vars

----------------------------------------------------------------------------
(* The steps of one thread of the multi-producer/multi-consumer ring, its   *)
(* requests being of least entries or more.                                 *)

ProducerStep(t, least) ==
    \/ \E n \in least .. MaxN, behavior \in Behaviors :
           StepMPMC(ring_push(t, n, behavior))
    \/ StepMPMC(ring_mp_push_head(t))
    \/ StepMPMC(ring_mp_push_tail(t))
    \/ StepMPMC(ring_mp_push_cas(t))
    \/ StepMPMC(PUSH_PTRS(t))
    \/ StepMPMC(ring_mp_push_spin(t))
    \/ StepMPMC(ring_push_store_tail(t))

ConsumerStep(t, least) ==
    \/ \E n \in least .. MaxN, behavior \in Behaviors :
           StepMPMC(ring_pop(t, n, behavior))
    \/ StepMPMC(ring_mc_pop_head(t))
    \/ StepMPMC(ring_mc_pop_tail(t))
    \/ StepMPMC(ring_mc_pop_cas(t))
    \/ StepMPMC(POP_PTRS(t))
    \/ StepMPMC(ring_mc_pop_spin(t))
    \/ StepMPMC(ring_pop_store_tail(t))

ThreadStep(t, least) ==
    \/ t \in Producers /\ ProducerStep(t, least)
    \/ t \in Consumers /\ ConsumerStep(t, least)

\* every request is of one entry or more
NextPositive == \E t \in Threads : ThreadStep(t, 1)

(* One thread may stop for ever anywhere, a call of its own in flight       *)
(* included; the scheduler is fair to each of the others.                   *)

Suspended == "p1"

FairToTheRest == \A t \in Threads \ {Suspended} : WF_vars(ThreadStep(t, 1))

InitPositive == InitWith({2 ^ MultiOrder}, {0}, CounterBits, MaxSingleCalls, MaxCalls)

SpecSuspend == InitPositive /\ [][NextPositive]_vars /\ FairToTheRest

(* The multi-producer/multi-consumer ring on counters of AbaBits bits: p1    *)
(* makes one call while p2 makes AbaCalls calls and c1 one call less, so    *)
(* that the head can come back to a value p1 loaded.                        *)

AbaBudget == [t \in Threads |->
                 IF t = "p1" THEN 1
                 ELSE IF t = "p2" THEN AbaCalls
                 ELSE IF t = "c1" THEN AbaCalls - 1
                 ELSE 0]

InitAba == InitState(2 ^ Order, 0, AbaBits, AbaBudget)

SpecAba == InitAba /\ [][NextPositive]_vars

(* Every thread keeps running: the scheduler is fair to each of them.  One   *)
(* side of the ring is single, the other multi, every thread makes MaxCalls *)
(* calls and a request may be of no entry.                                  *)

\* the steps of the thread of a single side
SingleStep(t) ==
    \/ t \in Producers /\ StepMPMC(ring_sp_push_head(t))
    \/ t \in Producers /\ StepMPMC(ring_sp_push_tail(t))
    \/ t \in Producers /\ StepMPMC(ring_sp_push_store_head(t))
    \/ t \in Consumers /\ StepMPMC(ring_sc_pop_head(t))
    \/ t \in Consumers /\ StepMPMC(ring_sc_pop_tail(t))
    \/ t \in Consumers /\ StepMPMC(ring_sc_pop_store_head(t))

AnyStep(t, least) == ThreadStep(t, least) \/ SingleStep(t)

NextFair == \E t \in Threads : AnyStep(t, 0)

FairToAll == \A t \in Threads : WF_vars(AnyStep(t, 0))

InitFair == InitWith({2 ^ Order}, {RING_F_SP, RING_F_SC}, CounterBits, MaxCalls, MaxCalls)

SpecFair == InitFair /\ [][NextFair]_vars /\ FairToAll

----------------------------------------------------------------------------
(* The sequential specification: a single-producer/single-consumer ring    *)
(* whose calls do not overlap, run beside a reference bounded FIFO.        *)

\* what a bounded FIFO grants a request of n when room entries can move
RefGrant(n, behavior, room) ==
    IF n <= room THEN n ELSE IF behavior = RING_B_FIXED THEN 0 ELSE room

RefPushCount(f) == RefGrant(f.max, f.behavior, (r.prod.size - 1) - Len(refq))

RefPopCount(f) == RefGrant(f.max, f.behavior, Len(refq))

TrackRef ==
    refq' = IF \E t \in Producers : Returns(t)
            THEN LET t == CHOOSE u \in Producers : Returns(u)
                 IN  refq \o Front(pushf[t].objs, RefPushCount(pushf[t]))
            ELSE IF \E t \in Consumers : Returns(t)
            THEN LET t == CHOOSE u \in Consumers : Returns(u)
                 IN  SubSeq(refq, RefPopCount(popf[t]) + 1, Len(refq))
            ELSE refq

StepSeq(A) == A /\ TrackRef /\ UNCHANGED <<width, alone, lo, refused, moved, obs, ms>>

InitSeq == InitWith(RingCounts, {RING_F_SP + RING_F_SC}, CounterBits, MaxSeqCalls, 0)

NextSeq ==
    \/ \E t \in Producers, n \in 0 .. MaxSeqN, behavior \in Behaviors :
           StepSeq(Quiescent /\ ring_push(t, n, behavior))
    \/ \E t \in Producers : StepSeq(ring_sp_push_head(t))
    \/ \E t \in Producers : StepSeq(ring_sp_push_tail(t))
    \/ \E t \in Producers : StepSeq(ring_sp_push_store_head(t))
    \/ \E t \in Producers : StepSeq(PUSH_PTRS(t))
    \/ \E t \in Producers : StepSeq(ring_push_store_tail(t))
    \/ \E t \in Consumers, n \in 0 .. MaxSeqN, behavior \in Behaviors :
           StepSeq(Quiescent /\ ring_pop(t, n, behavior))
    \/ \E t \in Consumers : StepSeq(ring_sc_pop_head(t))
    \/ \E t \in Consumers : StepSeq(ring_sc_pop_tail(t))
    \/ \E t \in Consumers : StepSeq(ring_sc_pop_store_head(t))
    \/ \E t \in Consumers : StepSeq(POP_PTRS(t))
    \/ \E t \in Consumers : StepSeq(ring_pop_store_tail(t))

SpecSeq == InitSeq /\ [][NextSeq]_vars

----------------------------------------------------------------------------
(* The sequential specification on counters of WrapBits bits: the ring      *)
(* sizes are the powers of two from 2 that are below 2^WrapBits.            *)

WrapCounts == {2 ^ k : k \in 1 .. WrapBits - 1}

InitWrap == InitWith(WrapCounts, {RING_F_SP + RING_F_SC}, WrapBits, MaxSeqCalls, 0)

SpecWrap == InitWrap /\ [][NextSeq]_vars

----------------------------------------------------------------------------
(* The accessors, called by a thread of its own while a producer and a      *)
(* consumer run on a single-producer/single-consumer ring.                  *)

Accessors == {"ring_full", "ring_empty", "ring_count", "ring_avail"}

\* the value accessor fn computes from the two tails it loaded
AccValue(fn, prod_tail, cons_tail, mask) ==
    CASE fn = "ring_full" -> ring_full(prod_tail, cons_tail, mask)
      [] fn = "ring_empty" -> ring_empty(prod_tail, cons_tail)
      [] fn = "ring_count" -> ring_count(prod_tail, cons_tail, mask)
      [] fn = "ring_avail" -> ring_avail(prod_tail, cons_tail, mask)

\* the value of the formula of accessor fn in state q of the ring
AccShown(fn, q) == AccValue(fn, q.prod.tail, q.cons.tail, q.prod.mask)

\* lines 504, 511, 518, 525: uint32_t prod_tail = r->prod.tail
accessor_prod_tail(fn) ==
    /\ obs.pc = "idle"
    /\ obs' = [pc |-> "cons_tail", fn |-> fn, prod_tail |-> r.prod.tail,
               seen |-> {AccShown(fn, r)}]
    /\ UNCHANGED <<r, width, pushf, popf, nextHandle, reserved, pushed, popped,
                   alone, lo, refused, moved, refq, calls, ms>>

\* the value the accessor returns once it has loaded r->cons.tail
AccRet == AccValue(obs.fn, obs.prod_tail, r.cons.tail, r.prod.mask)

\* lines 505-506, 512-513, 519-520, 526-527: uint32_t cons_tail = r->cons.tail;
\* return the value computed from the two loads
accessor_cons_tail ==
    /\ obs.pc = "cons_tail"
    /\ obs' = IdleObs
    /\ UNCHANGED <<r, width, pushf, popf, nextHandle, reserved, pushed, popped,
                   alone, lo, refused, moved, refq, calls, ms>>

\* history: the values the formula of the running accessor had since its first load
TrackSeen ==
    obs' = IF obs.pc = "idle" THEN obs
           ELSE [obs EXCEPT !.seen = @ \cup {AccShown(obs.fn, r')}]

StepObs(A) == A /\ TrackSeen /\ UNCHANGED <<width, alone, lo, refused, moved, refq, ms>>

InitObs == InitWith({2 ^ ObsOrder}, {RING_F_SP + RING_F_SC}, CounterBits, MaxSingleCalls, MaxCalls)

NextObs ==
    \/ \E t \in Producers, n \in 0 .. MaxN, behavior \in Behaviors :
           StepObs(ring_push(t, n, behavior))
    \/ \E t \in Producers : StepObs(ring_sp_push_head(t))
    \/ \E t \in Producers : StepObs(ring_sp_push_tail(t))
    \/ \E t \in Producers : StepObs(ring_sp_push_store_head(t))
    \/ \E t \in Producers : StepObs(PUSH_PTRS(t))
    \/ \E t \in Producers : StepObs(ring_push_store_tail(t))
    \/ \E t \in Consumers, n \in 0 .. MaxN, behavior \in Behaviors :
           StepObs(ring_pop(t, n, behavior))
    \/ \E t \in Consumers : StepObs(ring_sc_pop_head(t))
    \/ \E t \in Consumers : StepObs(ring_sc_pop_tail(t))
    \/ \E t \in Consumers : StepObs(ring_sc_pop_store_head(t))
    \/ \E t \in Consumers : StepObs(POP_PTRS(t))
    \/ \E t \in Consumers : StepObs(ring_pop_store_tail(t))
    \/ \E fn \in Accessors : accessor_prod_tail(fn)
    \/ accessor_cons_tail

SpecObs == InitObs /\ [][NextObs]_vars

----------------------------------------------------------------------------
(* ring_memsize, called with counts from a bounded set.                     *)

\* ((x)-1) & (x) == 0 on an unsigned x: for x = 0 the decrement wraps to all
\* ones, which BitAnd yields for 0 - 1 as well, and the conjunction with 0 is 0
POWEROF2(x) == BitAnd(x - 1, x) = 0

ring_memsize(count) ==
    IF ~POWEROF2(count) \/ count > RING_SIZE_MASK
    THEN 0
    ELSE SizeofRing + count * SizeofPtr

MemCounts ==
    (0 .. MaxCount) \cup {2 ^ k : k \in 0 .. MaxPower}
        \cup {RING_SIZE_MASK - 1, RING_SIZE_MASK, RING_SIZE_MASK + 2}

\* one call of ring_memsize
memsize_call(count) ==
    /\ ms' = [pc |-> "returned", count |-> count, ret |-> ring_memsize(count)]
    /\ UNCHANGED <<r, width, pushf, popf, nextHandle, reserved, pushed, popped,
                   alone, lo, refused, moved, refq, calls, obs>>

InitMem == InitWith({2 ^ Order}, {0}, CounterBits, MaxSingleCalls, MaxCalls)

NextMem == \E count \in MemCounts : memsize_call(count)

SpecMem == InitMem /\ [][NextMem]_vars

----------------------------------------------------------------------------
(* Vocabulary of the claims. *)

MPMC == r.prod.sp = 0 /\ r.cons.sc = 0
MPSC == r.prod.sp = 0 /\ r.cons.sc # 0
SPSC == r.prod.sp # 0 /\ r.cons.sc # 0

NoDuplicates(s) == \A j, k \in 1 .. Len(s) : j # k => s[j] # s[k]

\* C1: in a multi-producer/multi-consumer ring every handle a pop returned was
\* granted to some push, no handle is returned twice, and once every call has
\* returned and the ring is drained the popped handles are exactly the pushed ones.
C1_ExactlyOnce ==
    MPMC =>
        /\ Range(popped) \subseteq Range(reserved)
        /\ NoDuplicates(popped)
        /\ (Quiescent /\ Empty(r) = 1) => Range(popped) = Range(pushed)

\* C2: a single-producer/single-consumer ring of size S run by non-overlapping
\* calls behaves like a bounded FIFO of capacity S-1: every call returns the count
\* the reference queue grants, every pop yields the front of the reference queue,
\* and the popped handles are a prefix of the pushed handles.
C2_RefinesFifo ==
    [][SPSC =>
        /\ \A t \in Producers : Returns(t) =>
               PushRet(pushf[t]) = RefPushCount(pushf[t])
        /\ \A t \in Consumers : Returns(t) =>
               /\ PopRet(popf[t]) = RefPopCount(popf[t])
               /\ popf[t].objs = Front(refq, RefPopCount(popf[t]))
        /\ IsPrefix(popped', pushed')]_vars

\* C2 witness: five handles went through a four-slot ring, so the copy wrapped
C2_Witness ==
    SPSC /\ r.prod.size = 4 /\ Len(popped) >= 5 /\ popped = pushed

\* C3: in a multi-producer/single-consumer ring the consumer observes the pushed
\* batches whole, each in input order, in the order their reservations succeeded.
C3_ReservationOrder == MPSC => IsPrefix(popped, reserved)

\* thread t takes this step
Steps(t) == IF t \in Producers THEN pushf'[t] # pushf[t] ELSE popf'[t] # popf[t]

\* C4: a fixed call of n returns n or 0 and nothing else; returning n it moved its
\* side's head by n at its reservation and its side's tail by n at its tail store;
\* returning 0 it left the heads, the tails and the slots as they were; no step of
\* the call touches the other side's head or tail.
C4_AllOrNothing ==
    [][/\ \A t \in Producers :
              (Steps(t) /\ Busy(t) /\ pushf[t].behavior = RING_B_FIXED) =>
                  /\ r'.cons = r.cons
                  /\ r'.prod.head \in {r.prod.head, U32(r.prod.head + pushf[t].max)}
                  /\ IF Returns(t)
                     THEN /\ PushRet(pushf[t]) \in {0, pushf[t].max}
                          /\ r'.prod.tail = U32(r.prod.tail + PushRet(pushf[t]))
                          /\ PushRet(pushf[t]) = 0 => r' = r
                     ELSE r'.prod.tail = r.prod.tail
       /\ \A t \in Consumers :
              (Steps(t) /\ Busy(t) /\ popf[t].behavior = RING_B_FIXED) =>
                  /\ r'.prod = r.prod
                  /\ r'.ring = r.ring
                  /\ r'.cons.head \in {r.cons.head, U32(r.cons.head + popf[t].max)}
                  /\ IF Returns(t)
                     THEN /\ PopRet(popf[t]) \in {0, popf[t].max}
                          /\ r'.cons.tail = U32(r.cons.tail + PopRet(popf[t]))
                          /\ PopRet(popf[t]) = 0 => r' = r
                     ELSE r'.cons.tail = r.cons.tail]_vars

\* C5: a variable call of n that ran with no other call in flight returns
\* min(n, ring_avail()) for a push, having pushed the first that-many handles of
\* its input, and min(n, ring_count()) for a pop.
C5_VariableGrantsMin ==
    [][/\ \A t \in Producers :
              (Returns(t) /\ alone[t] /\ pushf[t].behavior = RING_B_VARIABLE) =>
                  /\ PushRet(pushf[t]) = Min(pushf[t].max, Avail(r))
                  /\ pushed' = pushed \o Front(pushf[t].objs, Min(pushf[t].max, Avail(r)))
       /\ \A t \in Consumers :
              (Returns(t) /\ alone[t] /\ popf[t].behavior = RING_B_VARIABLE) =>
                  PopRet(popf[t]) = Min(popf[t].max, Count(r))]_vars

\* the request of the call of frame f is refused although the accessor value
\* shown would have allowed it
Starved(f, shown) ==
    /\ f.max >= 1
    /\ IF f.behavior = RING_B_FIXED THEN shown >= f.max ELSE shown > 0

\* C9: a push (pop) of n >= 1 returns 0 only if ring_avail() (ring_count()) was
\* below n, for a variable call 0, in some state during the call.
C9_ZeroMeansFull ==
    [][/\ \A t \in Producers :
              (Returns(t) /\ PushRet(pushf[t]) = 0) => ~Starved(pushf[t], lo[t])
       /\ \A t \in Consumers :
              (Returns(t) /\ PopRet(popf[t]) = 0) => ~Starved(popf[t], lo[t])]_vars

\* C9 as it holds: on a single-producer ring a push of n >= 1, and on a
\* single-consumer ring a pop of n >= 1, returns 0 only if ring_avail()
\* (ring_count()) is below n, for a variable call 0, in the state in which the call
\* loads the opposite tail.
C9_SingleZeroMeansFull ==
    [][/\ \A t \in Producers :
              (r.prod.sp # 0 /\ Returns(t) /\ PushRet(pushf[t]) = 0) =>
                  ~Starved(pushf[t], Avail(r))
       /\ \A t \in Consumers :
              (r.cons.sc # 0 /\ Returns(t) /\ PopRet(popf[t]) = 0) =>
                  ~Starved(popf[t], Count(r))]_vars

\* C9 witness: on a single-producer ring a push of one handle or more returned 0,
\* and on a single-consumer ring a pop did
C9_Witness ==
    \/ r.prod.sp # 0 /\ SingleProducer \in refused
    \/ r.cons.sc # 0 /\ SingleConsumer \in refused

\* C6: in every reachable state 0 <= count <= size-1, count + avail = size-1, and
\* count is the number of handles published and not yet published as read.
C6_CountIsOccupancy ==
    /\ 0 <= Count(r) /\ Count(r) <= r.prod.size - 1
    /\ Count(r) + Avail(r) = r.prod.size - 1
    /\ Count(r) = Len(pushed) - Len(popped)

\* C7: on one pair of tails ring_empty is true exactly when ring_count is 0,
\* ring_full exactly when ring_avail is 0, and for a size of 2 or more they are
\* never both true (for size 1 both always are).
C7_EmptyFullAgree ==
    /\ (Empty(r) = 1) <=> (Count(r) = 0)
    /\ (Full(r) = 1) <=> (Avail(r) = 0)
    /\ r.prod.size >= 2 => ~(Empty(r) = 1 /\ Full(r) = 1)
    /\ r.prod.size = 1 => (Empty(r) = 1 /\ Full(r) = 1 /\ Len(pushed) = 0)

\* C8: the value an accessor returns is a value its formula had in a state of
\* the ring between the accessor's first load and its return.
C8_AccessorSnapshot ==
    [][(obs.pc = "cons_tail" /\ obs'.pc = "idle") => AccRet \in obs.seen]_vars

\* count is a power of two: 1, 2, 4, ...
IsPowerOfTwo(count) == \E k \in 0 .. MaxPower : count = 2 ^ k

\* C10: ring_memsize returns 0 for a count that is not a power of two (0 is not)
\* or is above the size mask, else the header size plus count slots, not 0.
C10_Memsize ==
    ms.pc = "returned" =>
        IF IsPowerOfTwo(ms.count) /\ ms.count <= RING_SIZE_MASK
        THEN ms.ret = SizeofRing + ms.count * SizeofPtr /\ ms.ret # 0
        ELSE ms.ret = 0

\* what a call of frame f returns when there are avail entries for it
Granted(f, avail) ==
    IF ReturnsZero(f.max, avail, f.behavior) THEN 0 ELSE Clamp(f.max, avail)

\* C11: with non-overlapping calls the wrapping counters give what counters that
\* never wrap give (these are Len(pushed) on the producer side and Len(popped) on
\* the consumer side): the same return values, the same popped handles, and
\* between calls the same ring_count() and ring_avail().
C11_WrapHarmless ==
    [][/\ \A t \in Producers : Returns(t) =>
              PushRet(pushf[t]) =
                  Granted(pushf[t], r.prod.mask + Len(popped) - Len(pushed))
       /\ \A t \in Consumers : Returns(t) =>
              /\ PopRet(popf[t]) = Granted(popf[t], Len(pushed) - Len(popped))
              /\ PopRet(popf[t]) > 0 =>
                     popf[t].objs = SubSeq(pushed, Len(popped) + 1,
                                           Len(popped) + PopRet(popf[t]))
       /\ Quiescent =>
              /\ Count(r) = BitAnd(Len(pushed) - Len(popped), r.prod.mask)
              /\ Avail(r) = BitAnd(Len(popped) - Len(pushed) - 1, r.prod.mask)]_vars

\* C11 witness: both tails were carried past 2^width - 1 and a pop returned after it
C11_Witness ==
    /\ Quiescent
    /\ Len(popped) > 2 ^ width
    /\ r.cons.tail < Len(popped)
    /\ r.prod.tail < Len(pushed)

\* C12: the ring is lock-free in multi-producer/multi-consumer mode: with one
\* thread suspended for ever anywhere inside a push or a pop, and the scheduler
\* fair to the others, every call of the other threads returns.
C12_LockFree ==
    \A t \in Threads \ {Suspended} : Busy(t) ~> ~Busy(t)

\* the calls of a multi side that hold a reservation: past the CAS, before the tail store
ProdHolders == {t \in Producers : pushf[t].pc \in {"mp_copy", "mp_spin", "mp_store_tail"}}
ConsHolders == {t \in Consumers : popf[t].pc \in {"mc_copy", "mc_spin", "mc_store_tail"}}

\* thread t stores its side's tail in this step
PushPublishes(t) == pushf[t].pc = "mp_store_tail" /\ pushf'[t].pc = "idle"
PopPublishes(t) == popf[t].pc = "mc_store_tail" /\ popf'[t].pc = "idle"

\* C13: on a multi side publications happen in reservation order: every tail
\* store moves the tail from the storing call's own head to that head plus its n,
\* so the tail never goes back and never skips a reserved range.
C13_PublicationOrder ==
    [][/\ \A t \in Producers : PushPublishes(t) =>
              /\ r.prod.tail = pushf[t].prod_head
              /\ r'.prod.tail = U32(pushf[t].prod_head + pushf[t].n)
       /\ \A t \in Consumers : PopPublishes(t) =>
              /\ r.cons.tail = popf[t].cons_head
              /\ r'.cons.tail = U32(popf[t].cons_head + popf[t].n)]_vars

\* the counters from tail up to head that the reservation [from, from + n) holds
Held(tail, from, n) == {U32(from - tail) + k : k \in 0 .. n - 1}

\* C14: the ranges reserved by the calls in flight on a multi side are pairwise
\* disjoint and tile exactly the counters from the side's tail up to its head.
C14_ReservedTile ==
    /\ r.prod.sp = 0 =>
           /\ \A t, u \in ProdHolders : t # u =>
                  Held(r.prod.tail, pushf[t].prod_head, pushf[t].n)
                      \cap Held(r.prod.tail, pushf[u].prod_head, pushf[u].n) = {}
           /\ UNION {Held(r.prod.tail, pushf[t].prod_head, pushf[t].n) : t \in ProdHolders}
                  = 0 .. U32(r.prod.head - r.prod.tail) - 1
    /\ r.cons.sc = 0 =>
           /\ \A t, u \in ConsHolders : t # u =>
                  Held(r.cons.tail, popf[t].cons_head, popf[t].n)
                      \cap Held(r.cons.tail, popf[u].cons_head, popf[u].n) = {}
           /\ UNION {Held(r.cons.tail, popf[t].cons_head, popf[t].n) : t \in ConsHolders}
                  = 0 .. U32(r.cons.head - r.cons.tail) - 1

\* thread t copies one handle in this step
PushCopies(t) == pushf[t].pc \in {"sp_copy", "mp_copy"}
                     /\ pushf'[t] # pushf[t] /\ pushf'[t].pc # "idle"
PopCopies(t) == popf[t].pc \in {"sc_copy", "mc_copy"}
                    /\ popf'[t] # popf[t] /\ popf'[t].pc # "idle"

\* the handles the consumers in flight have copied out
CopiedOut == UNION {Range(popf[t].objs) : t \in Consumers}

\* C15: a producer never writes a slot holding an entry that is published and
\* not consumed yet (cons.tail has not passed it); a consumer reads only slots
\* below prod.tail; and a slot is written exactly once between two reads of it:
\* what a consumer reads was written and was read by no one before.
C15_NoSlotRace ==
    [][/\ \A t \in Producers : PushCopies(t) =>
              LET c == U32(pushf[t].prod_head + pushf[t].i)
              IN  /\ U32(c - r.prod.tail) < r.prod.size
                  /\ U32(r.prod.mask + r.cons.tail - c) < r.prod.size
       /\ \A t \in Consumers : PopCopies(t) =>
              LET c == U32(popf[t].cons_head + popf[t].i)
                  idx == PtrIdx(BitAnd(popf[t].cons_head, r.prod.mask), popf[t].i,
                                popf[t].n, r.cons.size)
              IN  /\ U32(r.prod.tail - c) \in 1 .. r.prod.mask
                  /\ idx \in DOMAIN r.ring
                  /\ r.ring[idx] # Uninit
                  /\ r.ring[idx] \notin Range(popped) \cup CopiedOut]_vars

\* C16: the four counters are ordered
\* cons.tail <= cons.head <= prod.tail <= prod.head <= cons.tail + size - 1
\* (differences taken in the counters' arithmetic, which is the order of the
\* unbounded counters while they are less than size apart).
C16_CounterOrder ==
    LET ch == U32(r.cons.head - r.cons.tail)
        pt == U32(r.prod.tail - r.cons.tail)
        ph == U32(r.prod.head - r.cons.tail)
    IN  ch <= pt /\ pt <= ph /\ ph <= r.prod.size - 1

\* thread t computes its count from the values loaded in this iteration
PushClamps(t) == pushf[t].pc = "mp_tail" /\ pushf'[t].pc = "mp_cas"
PopClamps(t) == popf[t].pc = "mc_tail" /\ popf'[t].pc = "mc_cas"

\* C17: on a multi side under RING_B_VARIABLE every iteration of the reservation
\* loop starts from the original request: the count an iteration goes to its CAS
\* with is min(original n, avail of the head and the opposite tail loaded in
\* that iteration), and the count granted when the CAS succeeds is never more
\* than the space free (push) or the entries published (pop) at that moment.
C17_VariableRetry ==
    [][/\ \A t \in Producers : pushf[t].behavior = RING_B_VARIABLE =>
              /\ PushClamps(t) =>
                     pushf'[t].n =
                         Min(pushf[t].max,
                             ProdAvail(r.prod.mask, r.cons.tail, pushf[t].prod_head))
              /\ PushReserves(t) =>
                     pushf[t].n <= ProdAvail(r.prod.mask, r.cons.tail, r.prod.head)
       /\ \A t \in Consumers : popf[t].behavior = RING_B_VARIABLE =>
              /\ PopClamps(t) =>
                     popf'[t].n =
                         Min(popf[t].max, ConsAvail(r.prod.tail, popf[t].cons_head))
              /\ PopReserves(t) =>
                     popf[t].n <= ConsAvail(r.prod.tail, r.cons.head)]_vars

\* the CAS of thread t fails in this step
PushRetries(t) == pushf[t].pc = "mp_cas" /\ pushf'[t].pc = "mp_head"
PopRetries(t) == popf[t].pc = "mc_cas" /\ popf'[t].pc = "mc_head"

\* C18: a CAS on a side's head fails only if the CAS of another caller of that
\* side moved the head after the failing caller loaded it; so of the callers that
\* go to the CAS with one head value one succeeds, and a caller whose side no
\* other caller reserves on never retries.
C18_CasProgress ==
    [][/\ \A t \in Producers : PushRetries(t) => t \in moved
       /\ \A t \in Consumers : PopRetries(t) => t \in moved
       /\ \A t \in Producers :
              (pushf[t].pc = "mp_cas" /\ r.prod.head # pushf[t].prod_head) => t \in moved
       /\ \A t \in Consumers :
              (popf[t].pc = "mc_cas" /\ r.cons.head # popf[t].cons_head) => t \in moved]_vars

\* C18 witness: a producer and a consumer are each back at the top of the loop
\* after a failed CAS, another caller having moved the head they had loaded
C18_Witness ==
    /\ \E t \in Producers : pushf[t].pc = "mp_head" /\ t \in moved
    /\ \E t \in Consumers : popf[t].pc = "mc_head" /\ t \in moved

\* C19: under weak fairness on every thread, each thread making finitely many
\* calls, every call of ring_push and of ring_pop returns.
C19_EveryCallReturns ==
    \A t \in Threads : Busy(t) ~> ~Busy(t)

\* the entries the consumers in flight have reserved
RECURSIVE PopsHeld(_)
PopsHeld(S) ==
    IF S = {} THEN 0
    ELSE LET t == CHOOSE u \in S : TRUE
         IN  popf[t].n + PopsHeld(S \ {t})

\* C20: reservation is safe when a head wraps under concurrency: whatever the
\* other threads did between a caller's loads and its CAS, a successful CAS
\* grants no more than what is free (push) or published and not reserved (pop)
\* at that moment, counted on counters that never wrap: Len(reserved) is the
\* producer head, Len(pushed) the producer tail, Len(popped) the consumer tail.
C20_WrapSafeReservation ==
    [][/\ \A t \in Producers : PushReserves(t) =>
              pushf[t].n <= r.prod.mask - (Len(reserved) - Len(popped))
       /\ \A t \in Consumers : PopReserves(t) =>
              popf[t].n <= Len(pushed) - (Len(popped) + PopsHeld(ConsHolders))]_vars

====
